---- MODULE Spec2Model ----
(***************************************************************************)
(* KubeSync companion dashboard (src/components/KubeSyncDashboard.tsx).    *)
(*                                                                         *)
(* Two components are modelled:                                            *)
(*   - the device registry held by KubeSyncDashboard (cards, selectedId,   *)
(*     modalOpen) with the list buttons and the Link Menu modal;           *)
(*   - the Web NFC hook useWebNfc (supported, scanning, logs) with its     *)
(*     asynchronous startScan / writeText continuations and the reader     *)
(*     event handlers.                                                     *)
(* tempC is kept in tenths of a degree (33.1 is 331) so that "+ 0.1" is    *)
(* integer arithmetic.  A log entry is the message pushed, without the     *)
(* wall-clock prefix that push puts in front of it.                        *)
(***************************************************************************)
EXTENDS Integers, Sequences, FiniteSets, TLC

VARIABLES
    \* ---- KubeSyncDashboard state (useState, lines 257-259)
    cards,          \* Card[]
    selectedId,     \* id of the selected card
    modalOpen,      \* Link Menu modal shown
    \* ---- observation of the run
    op,             \* the handler or continuation that ran last
    mutation,       \* which registry mutation the last click invoked
    \* ---- platform
    hasNDEF,        \* "NDEFReader" in window
    readers,        \* NDEFReader objects made by startScan, in order of creation
    writers,        \* NDEFReader objects made by writeText, in order of creation
    \* ---- useWebNfc state (useState, lines 60-62) and the effect of line 64
    mounted,        \* the mount effect has run
    supported,
    scanning,
    logs,           \* newest first
    writeTextValue, \* the text input of the NFC panel
    \* ---- observation of the NFC session
    lastEvent,      \* the reading event delivered last
    issuedSince,    \* a scan call was issued, and no stop or scan failure since
    succeededSince, \* a scan call resolved, and no stop or scan failure since
    platformCalls,  \* NDEFReader constructions, scan() and write() calls attempted
    uncaught,       \* exceptions that escaped a hook operation or handler
    \* ---- clamp / BatteryBar evaluation (pure functions)
    clampIn,        \* the argument n handed to clamp(n, 0, 100)
    clampOut        \* <<>> before the call, then <<value returned>>

regVars == <<cards, selectedId, modalOpen, mutation>>
clampVars == <<clampIn, clampOut>>
platVars == <<hasNDEF, readers, writers>>
hookVars == <<mounted, supported, scanning, logs, writeTextValue>>
obsVars == <<lastEvent, issuedSince, succeededSince, platformCalls, uncaught>>
nfcVars == <<platVars, hookVars, obsVars>>
vars == <<cards, selectedId, modalOpen, op, mutation, clampIn, clampOut,
          hasNDEF, readers, writers, mounted, supported, scanning, logs,
          writeTextValue, lastEvent, issuedSince, succeededSince, platformCalls,
          uncaught>>

\* ------------------------------------------------------------------ bounds
\* Monitor presses allowed per card (tempC would otherwise grow for ever).
MaxMonitors == 4
\* clamp is evaluated on every integer in -ClampSpan .. 100 + ClampSpan.
ClampSpan == 30
\* Lines the log may hold (the source's log is unbounded).
MaxLog == 5
\* NDEFReader objects startScan may create.
MaxReaders == 2
\* NDEFReader objects writeText may create.
MaxWriters == 2

\* No card at all: what cards[0] is on an empty list.
NoCard == [id |-> ""]

\* ------------------------------------------------------------------ clamp
Max2(a, b) == IF a >= b THEN a ELSE b
Min2(a, b) == IF a <= b THEN a ELSE b

\* A clamp that forgets the upper bound.
clampNoMax(n, min, max) == Max2(min, n)

\* const clamp = (n, min, max) => Math.max(min, Math.min(max, n));
clamp(n, min, max) == Max2(min, Min2(max, n))

\* BatteryBar: safe = clamp(pct, 0, 100); level by thresholds 70 / 35.
BatterySafe(pct) == clamp(pct, 0, 100)
BatteryLevel(pct) ==
    IF BatterySafe(pct) >= 70 THEN "high"
    ELSE IF BatterySafe(pct) >= 35 THEN "mid" ELSE "low"

\* ------------------------------------------------------------------ registry
Inventory(tags, notes, tokens) ==
    << [label |-> "NFC Tags", count |-> tags],
       [label |-> "Kube Notes", count |-> notes],
       [label |-> "Sync Tokens", count |-> tokens] >>

\* initialCards (lines 215-255)
initialCards ==
    << [id |-> "card-1", name |-> "Card 1", connected |-> TRUE, batteryPct |-> 76,
        health |-> [signal |-> 88, tempC |-> 331, lastSyncMinsAgo |-> 2],
        inventory |-> Inventory(12, 3, 7)],
       [id |-> "card-2", name |-> "Card 2", connected |-> FALSE, batteryPct |-> 42,
        health |-> [signal |-> 64, tempC |-> 354, lastSyncMinsAgo |-> 58],
        inventory |-> Inventory(4, 1, 2)],
       [id |-> "card-3", name |-> "Card 3", connected |-> FALSE, batteryPct |-> 18,
        health |-> [signal |-> 40, tempC |-> 378, lastSyncMinsAgo |-> 210],
        inventory |-> Inventory(0, 9, 0)] >>

\* Ids a click could name: the three seed ids and one that no card carries.
UnknownId == "card-9"
ClickIds == {initialCards[i].id : i \in 1..Len(initialCards)} \cup {UnknownId}

CardIds(cs) == {cs[i].id : i \in 1..Len(cs)}

\* cards.find((c) => c.id === selectedId) ?? cards[0]
selected(cs, sid) ==
    IF \E i \in 1..Len(cs) : cs[i].id = sid
    THEN cs[CHOOSE i \in 1..Len(cs) :
                /\ cs[i].id = sid
                /\ \A j \in 1..(i - 1) : cs[j].id # sid]
    ELSE IF Len(cs) > 0 THEN cs[1] ELSE NoCard

\* A toggle that forces the flag on instead of flipping it.
toggleConnectionSetsTrue(cs, sel) ==
    [i \in 1..Len(cs) |->
        IF cs[i].id = sel.id THEN [cs[i] EXCEPT !.connected = TRUE] ELSE cs[i]]

\* prev.map((c) => (c.id === selected.id ? { ...c, connected: !c.connected } : c))
toggleConnection(cs, sel) ==
    [i \in 1..Len(cs) |->
        IF cs[i].id = sel.id THEN [cs[i] EXCEPT !.connected = ~cs[i].connected] ELSE cs[i]]

\* A monitor that adds 4 without clamping.
onMonitorNoClamp(cs, sel) ==
    [i \in 1..Len(cs) |->
        IF cs[i].id = sel.id
        THEN [cs[i] EXCEPT !.health =
                 [signal |-> cs[i].health.signal + 4,
                  tempC |-> cs[i].health.tempC + 1,
                  lastSyncMinsAgo |-> 0]]
        ELSE cs[i]]

\* onMonitor (lines 509-525)
onMonitor(cs, sel) ==
    [i \in 1..Len(cs) |->
        IF cs[i].id = sel.id
        THEN [cs[i] EXCEPT !.health =
                 [signal |-> clamp(cs[i].health.signal + 4, 0, 100),
                  tempC |-> cs[i].health.tempC + 1,
                  lastSyncMinsAgo |-> 0]]
        ELSE cs[i]]

\* The card of the seed with the given id (used only to bound Monitor).
SeedOf(id) == selected(initialCards, id)
MonitorsDone(c) == c.health.tempC - SeedOf(c.id).health.tempC

\* A list that accepts a click on any id, whether or not a card carries it.
SelectCardAnyId(id) ==
    /\ selectedId' = id
    /\ op' = "select"
    /\ mutation' = "select"
    /\ UNCHANGED <<cards, modalOpen, clampVars, nfcVars>>

\* Device list button: one button per card, onClick={() => setSelectedId(c.id)}
SelectCard(id) ==
    /\ id \in CardIds(cards)
    /\ selectedId' = id
    /\ op' = "select"
    /\ mutation' = "select"
    /\ UNCHANGED <<cards, modalOpen, clampVars, nfcVars>>

\* "Actions", "Open Link Menu", "Run Quick Check": onClick={() => setModalOpen(true)}
OpenModal ==
    /\ Len(cards) > 0          \* if (!selected) return null;
    /\ modalOpen' = TRUE
    /\ op' = "open"
    /\ mutation' = "none"
    /\ UNCHANGED <<cards, selectedId, clampVars, nfcVars>>

\* Backdrop or the close button: onClose
CloseModal ==
    /\ modalOpen
    /\ modalOpen' = FALSE
    /\ op' = "close"
    /\ mutation' = "none"
    /\ UNCHANGED <<cards, selectedId, clampVars, nfcVars>>

\* A Connect wired straight to the toggle, without looking at isConnected.
ModalConnectAlwaysToggles ==
    /\ modalOpen
    /\ cards' = toggleConnection(cards, selected(cards, selectedId))
    /\ mutation' = "toggleConnection"
    /\ modalOpen' = FALSE
    /\ op' = "connect"
    /\ UNCHANGED <<selectedId, clampVars, nfcVars>>

\* Connect: if (!isConnected) onConnect(); onClose();
ModalConnect ==
    /\ modalOpen
    /\ LET sel == selected(cards, selectedId) IN
         IF ~sel.connected
         THEN cards' = toggleConnection(cards, sel) /\ mutation' = "toggleConnection"
         ELSE cards' = cards /\ mutation' = "none"
    /\ modalOpen' = FALSE
    /\ op' = "connect"
    /\ UNCHANGED <<selectedId, clampVars, nfcVars>>

\* Disconnect: if (isConnected) onDisconnect(); onClose();
ModalDisconnect ==
    /\ modalOpen
    /\ LET sel == selected(cards, selectedId) IN
         IF sel.connected
         THEN cards' = toggleConnection(cards, sel) /\ mutation' = "toggleConnection"
         ELSE cards' = cards /\ mutation' = "none"
    /\ modalOpen' = FALSE
    /\ op' = "disconnect"
    /\ UNCHANGED <<selectedId, clampVars, nfcVars>>

\* Monitor Health: onMonitor(); onClose();
ModalMonitor ==
    /\ modalOpen
    /\ MonitorsDone(selected(cards, selectedId)) < MaxMonitors
    /\ cards' = onMonitor(cards, selected(cards, selectedId))
    /\ modalOpen' = FALSE
    /\ op' = "monitor"
    /\ mutation' = "monitor"
    /\ UNCHANGED <<selectedId, clampVars, nfcVars>>

\* ------------------------------------------------------------------ Web NFC platform
\* e.message of the three platform failures the hook can meet.
CtorError == "NDEFReader is not a constructor"
ScanError == "scan rejected"
WriteError == "write rejected"

\* new window.NDEFReader() throws where the platform has no NDEFReader, and may
\* throw where it has one.
CtorOutcomes == IF hasNDEF THEN {TRUE, FALSE} ELSE {FALSE}

\* record.data: a buffer of bytes, or something that is no BufferSource.
Buf(bytes) == [buffer |-> TRUE, bytes |-> bytes]
NotBuffer == [buffer |-> FALSE, bytes |-> <<>>]

\* The reading events delivered: with and without a serial number; with no
\* record, a non-text record, or a text record whose encoding is absent, "utf-8"
\* or a label TextDecoder does not know, and whose data is "hi", a two-byte
\* character, a truncated two-byte character, a byte that never occurs in
\* UTF-8, or no buffer.  Bytes are below 224 or are 255.
Serials == {"", "04:A3:1B"}
Encodings == {"", "utf-8", "x-bogus"}
Payloads == {Buf(<<104, 105>>), Buf(<<195, 169>>), Buf(<<104, 195>>), Buf(<<255>>),
             NotBuffer}
NdefRecords ==
    {[recordType |-> "url", encoding |-> "", data |-> Buf(<<104>>)]}
    \cup {[recordType |-> "text", encoding |-> e, data |-> d] :
             e \in Encodings, d \in Payloads}
ReadEvents ==
    {[serialNumber |-> s, records |-> rs] :
        s \in Serials, rs \in {<<>>} \cup {<<r>> : r \in NdefRecords}}
NoEvent == [serialNumber |-> "", records |-> <<>>]

\* The text input's values: empty, and a non-empty text (trimmed).
Texts == {"", "ping"}

\* ------------------------------------------------------------------ TextDecoder
\* new TextDecoder(label) throws a RangeError on a label it does not know.
KnownLabels == {"utf-8"}

ReplacementChar == 65533

\* TextDecoder("utf-8").decode(bytes) with fatal left at false: a malformed
\* sequence becomes U+FFFD and decoding goes on; nothing is thrown.
RECURSIVE Utf8Decode(_)
Utf8Decode(bytes) ==
    IF bytes = <<>> THEN <<>>
    ELSE LET b == Head(bytes) IN
         IF b < 128 THEN <<b>> \o Utf8Decode(Tail(bytes))
         ELSE IF b >= 194 /\ b <= 223
         THEN IF Len(bytes) >= 2 /\ bytes[2] >= 128 /\ bytes[2] <= 191
              THEN <<(b - 192) * 64 + (bytes[2] - 128)>> \o Utf8Decode(Tail(Tail(bytes)))
              ELSE <<ReplacementChar>> \o Utf8Decode(Tail(bytes))
         ELSE <<ReplacementChar>> \o Utf8Decode(Tail(bytes))

\* new TextDecoder(record.encoding || "utf-8").decode(record.data):
\* thrown |-> TRUE when the constructor or decode throws.
DecodeText(record) ==
    LET label == IF record.encoding = "" THEN "utf-8" ELSE record.encoding IN
    IF label \notin KnownLabels THEN [thrown |-> TRUE, text |-> <<>>]
    ELSE IF ~record.data.buffer THEN [thrown |-> TRUE, text |-> <<>>]
    ELSE [thrown |-> FALSE, text |-> Utf8Decode(record.data.bytes)]

\* ------------------------------------------------------------------ useWebNfc
\* A log line: the message, its interpolated detail, and the decoded text of a
\* "Text record" line as code points.
Entry(msg, detail, text) == [msg |-> msg, detail |-> detail, text |-> text]

\* A push that adds at the tail.
pushTail(l, e) == Append(l, e)

\* push = (msg) => setLogs((p) => [`${time}  ${msg}`, ...p])
push(l, e) == <<e>> \o l

\* reader.onreading (lines 81-96): what it makes of the log.
onreading(l, event) ==
    LET serial == IF event.serialNumber # "" THEN event.serialNumber ELSE "unknown"
        l1 == push(l, Entry("Tag read", serial, <<>>))
    IN  IF Len(event.records) > 0 /\ event.records[1].recordType = "text"
        THEN LET d == DecodeText(event.records[1]) IN
             IF d.thrown
             THEN push(l1, Entry("Text record found, but could not decode", "", <<>>))
             ELSE push(l1, Entry("Text record", "", d.text))
        ELSE l1

\* React.useEffect(() => setSupported("NDEFReader" in window), [])
MountEffect ==
    /\ ~mounted
    /\ mounted' = TRUE
    /\ supported' = hasNDEF
    /\ op' = "mount"
    /\ UNCHANGED <<regVars, clampVars, platVars, scanning, logs, writeTextValue, obsVars>>

\* The text input's onChange.
EditWriteText(t) ==
    /\ mounted
    /\ t # writeTextValue
    /\ writeTextValue' = t
    /\ op' = "edit"
    /\ UNCHANGED <<regVars, clampVars, platVars, mounted, supported, scanning, logs, obsVars>>

\* startScan up to its await (lines 71-78), and its catch when the
\* constructor throws (lines 97-100).
startScan(ctorOk) ==
    /\ Len(logs) < MaxLog
    /\ IF ctorOk
       THEN /\ Len(readers) < MaxReaders
            /\ readers' = Append(readers, [scan |-> "pending", handlers |-> FALSE])
            /\ scanning' = TRUE
            /\ logs' = push(logs, Entry("Starting scan", "", <<>>))
            /\ platformCalls' = platformCalls + 2
            /\ issuedSince' = TRUE
            /\ op' = "startScan"
            /\ UNCHANGED succeededSince
       ELSE /\ scanning' = FALSE
            /\ logs' = push(logs, Entry("Scan failed", CtorError, <<>>))
            /\ platformCalls' = platformCalls + 1
            /\ issuedSince' = FALSE
            /\ succeededSince' = FALSE
            /\ op' = "startScanThrew"
            /\ UNCHANGED readers
    /\ UNCHANGED <<regVars, clampVars, hasNDEF, writers, mounted, supported,
                   writeTextValue, lastEvent, uncaught>>

\* A continuation that turns scanning on when scan() resolves.
ScanResolvedSetsScanning(r) ==
    /\ r \in 1..Len(readers)
    /\ readers[r].scan = "pending"
    /\ readers' = [readers EXCEPT ![r] = [scan |-> "resolved", handlers |-> TRUE]]
    /\ scanning' = TRUE
    /\ succeededSince' = TRUE
    /\ op' = "scanResolved"
    /\ UNCHANGED <<regVars, clampVars, hasNDEF, writers, mounted, supported, logs,
                   writeTextValue, lastEvent, issuedSince, platformCalls, uncaught>>

\* reader.scan() resolves: startScan goes on after its await and attaches
\* onreadingerror and onreading (lines 80-96).
ScanResolved(r) ==
    /\ r \in 1..Len(readers)
    /\ readers[r].scan = "pending"
    /\ readers' = [readers EXCEPT ![r] = [scan |-> "resolved", handlers |-> TRUE]]
    /\ succeededSince' = TRUE
    /\ op' = "scanResolved"
    /\ UNCHANGED <<regVars, clampVars, hasNDEF, writers, hookVars, lastEvent,
                   issuedSince, platformCalls, uncaught>>

\* A catch that attaches the handlers all the same and logs nothing.
ScanRejectedSilent(r) ==
    /\ r \in 1..Len(readers)
    /\ readers[r].scan = "pending"
    /\ readers' = [readers EXCEPT ![r] = [scan |-> "rejected", handlers |-> TRUE]]
    /\ scanning' = FALSE
    /\ issuedSince' = FALSE
    /\ succeededSince' = FALSE
    /\ op' = "scanRejected"
    /\ UNCHANGED <<regVars, clampVars, hasNDEF, writers, mounted, supported, logs,
                   writeTextValue, lastEvent, platformCalls, uncaught>>

\* reader.scan() rejects: the catch of startScan (lines 97-100).
ScanRejected(r) ==
    /\ r \in 1..Len(readers)
    /\ readers[r].scan = "pending"
    /\ Len(logs) < MaxLog
    /\ readers' = [readers EXCEPT ![r].scan = "rejected"]
    /\ scanning' = FALSE
    /\ logs' = push(logs, Entry("Scan failed", ScanError, <<>>))
    /\ issuedSince' = FALSE
    /\ succeededSince' = FALSE
    /\ op' = "scanRejected"
    /\ UNCHANGED <<regVars, clampVars, hasNDEF, writers, mounted, supported,
                   writeTextValue, lastEvent, platformCalls, uncaught>>

\* stopScan (lines 103-108)
stopScan ==
    /\ Len(logs) < MaxLog
    /\ scanning' = FALSE
    /\ logs' = push(logs, Entry("Stopped (UI-only)", "", <<>>))
    /\ issuedSince' = FALSE
    /\ succeededSince' = FALSE
    /\ op' = "stopScan"
    /\ UNCHANGED <<regVars, clampVars, platVars, mounted, supported, writeTextValue,
                   lastEvent, platformCalls, uncaught>>

\* writeText up to its await (lines 110-115), and its catch when the
\* constructor throws (lines 117-119).
writeText(text, ctorOk) ==
    /\ Len(logs) < MaxLog
    /\ IF ctorOk
       THEN /\ Len(writers) < MaxWriters
            /\ writers' = Append(writers, [write |-> "pending", text |-> text])
            /\ logs' = push(logs, Entry("Writing", text, <<>>))
            /\ platformCalls' = platformCalls + 2
            /\ op' = "writeText"
       ELSE /\ logs' = push(logs, Entry("Write failed", CtorError, <<>>))
            /\ platformCalls' = platformCalls + 1
            /\ op' = "writeTextThrew"
            /\ UNCHANGED writers
    /\ UNCHANGED <<regVars, clampVars, hasNDEF, readers, mounted, supported, scanning,
                   writeTextValue, lastEvent, issuedSince, succeededSince, uncaught>>

\* A write that marks the session as no longer scanning when it succeeds.
WriteResolvedStopsScanning(w) ==
    /\ w \in 1..Len(writers)
    /\ writers[w].write = "pending"
    /\ Len(logs) < MaxLog
    /\ writers' = [writers EXCEPT ![w].write = "resolved"]
    /\ logs' = push(logs, Entry("Write success", "", <<>>))
    /\ scanning' = FALSE
    /\ op' = "writeResolved"
    /\ UNCHANGED <<regVars, clampVars, hasNDEF, readers, mounted, supported,
                   writeTextValue, obsVars>>

\* writer.write() resolves: push("Write success") (line 116)
WriteResolved(w) ==
    /\ w \in 1..Len(writers)
    /\ writers[w].write = "pending"
    /\ Len(logs) < MaxLog
    /\ writers' = [writers EXCEPT ![w].write = "resolved"]
    /\ logs' = push(logs, Entry("Write success", "", <<>>))
    /\ op' = "writeResolved"
    /\ UNCHANGED <<regVars, clampVars, hasNDEF, readers, mounted, supported, scanning,
                   writeTextValue, obsVars>>

\* writer.write() rejects: the catch of writeText (lines 117-119)
WriteRejected(w) ==
    /\ w \in 1..Len(writers)
    /\ writers[w].write = "pending"
    /\ Len(logs) < MaxLog
    /\ writers' = [writers EXCEPT ![w].write = "rejected"]
    /\ logs' = push(logs, Entry("Write failed", WriteError, <<>>))
    /\ op' = "writeRejected"
    /\ UNCHANGED <<regVars, clampVars, hasNDEF, readers, mounted, supported, scanning,
                   writeTextValue, obsVars>>

\* The platform delivers a reading event to a reader whose scan is running;
\* the handler attached to it, if any, runs.
Reading(r, event) ==
    /\ r \in 1..Len(readers)
    /\ readers[r].scan = "resolved"
    /\ Len(logs) + 2 <= MaxLog
    /\ logs' = IF readers[r].handlers THEN onreading(logs, event) ELSE logs
    /\ lastEvent' = event
    /\ op' = "onreading"
    /\ UNCHANGED <<regVars, clampVars, platVars, mounted, supported, scanning,
                   writeTextValue, issuedSince, succeededSince, platformCalls, uncaught>>

\* The platform delivers a readingerror event: reader.onreadingerror (line 80)
ReadingError(r) ==
    /\ r \in 1..Len(readers)
    /\ readers[r].scan = "resolved"
    /\ Len(logs) < MaxLog
    /\ logs' = IF readers[r].handlers
               THEN push(logs, Entry("Read error (try again).", "", <<>>))
               ELSE logs
    /\ op' = "onreadingerror"
    /\ UNCHANGED <<regVars, clampVars, platVars, mounted, supported, scanning,
                   writeTextValue, obsVars>>

\* "Start Scan": disabled={!nfc.supported} onClick={nfc.startScan}
ClickStartScan ==
    /\ mounted
    /\ supported
    /\ \E ctorOk \in CtorOutcomes : startScan(ctorOk)

\* "Stop (UI)": onClick={nfc.stopScan}, never disabled
ClickStopScan ==
    /\ mounted
    /\ stopScan

\* "Write Text": disabled={!nfc.supported || !writeTextValue.trim()}
ClickWriteText ==
    /\ mounted
    /\ supported
    /\ writeTextValue # ""
    /\ \E ctorOk \in CtorOutcomes : writeText(writeTextValue, ctorOk)

\* The hook's operations as useWebNfc returns them (line 122), called by a
\* consumer that does not look at supported first.
CallStartScan ==
    /\ mounted
    /\ \E ctorOk \in CtorOutcomes : startScan(ctorOk)

CallWriteText(text) ==
    /\ mounted
    /\ \E ctorOk \in CtorOutcomes : writeText(text, ctorOk)

\* ------------------------------------------------------------------ clamp as a call
\* BatteryBar's call clamp(pct, 0, 100) on the argument drawn at Init.
CallClamp ==
    /\ clampOut = <<>>
    /\ clampOut' = <<clamp(clampIn, 0, 100)>>
    /\ op' = "clamp"
    /\ UNCHANGED <<regVars, clampIn, nfcVars>>

\* ------------------------------------------------------------------ specifications
InitRegistry ==
    /\ cards = initialCards
    /\ selectedId = initialCards[1].id
    /\ modalOpen = FALSE
    /\ mutation = "none"

\* useWebNfc's useState initial values; the platform has NDEFReader or not.
InitNfc ==
    /\ hasNDEF \in BOOLEAN
    /\ readers = <<>>
    /\ writers = <<>>
    /\ mounted = FALSE
    /\ supported = FALSE
    /\ scanning = FALSE
    /\ logs = <<>>
    /\ writeTextValue = "ping"
    /\ lastEvent = NoEvent
    /\ issuedSince = FALSE
    /\ succeededSince = FALSE
    /\ platformCalls = 0
    /\ uncaught = 0

Init ==
    /\ InitRegistry
    /\ InitNfc
    /\ op = "none"
    /\ clampIn = initialCards[1].batteryPct
    /\ clampOut = <<>>

NextRegistry ==
    \/ \E id \in ClickIds : SelectCard(id)
    \/ OpenModal
    \/ CloseModal
    \/ ModalConnect
    \/ ModalDisconnect
    \/ ModalMonitor

\* The continuations and events the platform drives.
NextPlatform ==
    \/ \E r \in 1..MaxReaders : ScanResolved(r)
    \/ \E r \in 1..MaxReaders : ScanRejected(r)
    \/ \E w \in 1..MaxWriters : WriteResolved(w)
    \/ \E w \in 1..MaxWriters : WriteRejected(w)
    \/ \E r \in 1..MaxReaders : \E event \in ReadEvents : Reading(r, event)
    \/ \E r \in 1..MaxReaders : ReadingError(r)

\* The NFC panel as the dashboard renders it.
NextNfc ==
    \/ MountEffect
    \/ \E t \in Texts : EditWriteText(t)
    \/ ClickStartScan
    \/ ClickStopScan
    \/ ClickWriteText
    \/ NextPlatform

\* The hook driven through the operations it returns.
NextHook ==
    \/ MountEffect
    \/ CallStartScan
    \/ ClickStopScan
    \/ \E t \in Texts \ {""} : CallWriteText(t)
    \/ NextPlatform

Next == NextRegistry \/ NextNfc

\* The whole dashboard.
Spec == Init /\ [][Next]_vars

\* The device registry and the Link Menu modal alone.
SpecRegistry == Init /\ [][NextRegistry]_vars

\* The NFC panel alone.
SpecNfc == Init /\ [][NextNfc]_vars

\* useWebNfc alone, without the panel's disabled buttons.
SpecHook == Init /\ [][NextHook]_vars

InitClamp ==
    /\ InitRegistry
    /\ InitNfc
    /\ op = "none"
    /\ clampIn \in (0 - ClampSpan)..(100 + ClampSpan)
    /\ clampOut = <<>>

\* clamp applied to one argument.
SpecClamp == InitClamp /\ [][CallClamp]_vars

\* ------------------------------------------------------------------ claims
\* The lines a step added to the log, newest first (the log only grows at its head).
NewLines == SubSeq(logs', 1, Len(logs') - Len(logs))
\* The step added exactly the line with message msg at the head of the log.
Pushed(msg) ==
    /\ Len(logs') = Len(logs) + 1
    /\ logs'[1].msg = msg
    /\ SubSeq(logs', 2, Len(logs')) = logs

StartOps == {"startScan", "startScanThrew"}
WriteCallOps == {"writeText", "writeTextThrew"}
AttemptMsgs == {"Starting scan", "Scan failed", "Writing", "Write failed"}

\* C1: when supported is false, a call of startScan() or writeText(text)
\* attempts no platform call, leaves scanning false and adds no log line that
\* implies an attempt.
C1_UnsupportedRejectedStep ==
    (~supported /\ op' \in StartOps \cup WriteCallOps) =>
        /\ platformCalls' = platformCalls
        /\ scanning' = FALSE
        /\ \A i \in 1..Len(NewLines) : NewLines[i].msg \notin AttemptMsgs
C1_UnsupportedRejected == [][C1_UnsupportedRejectedStep]_vars

\* C2 as stated: scanning is true exactly when a platform scan start has
\* succeeded and neither a stopScan nor a scan-start failure has happened since.
C2_ScanningIffSucceeded == scanning <=> succeededSince

\* C2 as amended: scanning is true exactly when a startScan has constructed its
\* reader and issued the platform scan call, and neither a stopScan nor a
\* scan-start failure has happened since; it is already true while that call is
\* pending, and the call's resolution does not change it.
C2_ScanningIffIssued == scanning <=> issuedSince
C2_Witness ==
    /\ scanning
    /\ ~succeededSince
    /\ \E r \in 1..Len(readers) : readers[r].scan = "pending"

\* C3: whenever the platform call made by startScan() fails (the constructor
\* throws or scan() rejects), the step leaves scanning false, adds exactly one
\* "Scan failed" line, lets no exception out and makes no further platform call
\* (no retry); a reader whose scan was rejected never has handlers attached and
\* is never scanned again; and a "Scan failed" line appears only on such a failure.
ScanFailureOps == {"startScanThrew", "scanRejected"}
C3_ScanFailureStep ==
    /\ op' \in ScanFailureOps =>
          /\ scanning' = FALSE
          /\ Pushed("Scan failed")
          /\ uncaught' = uncaught
          /\ Len(readers') = Len(readers)
          /\ platformCalls' = platformCalls + (IF op' = "startScanThrew" THEN 1 ELSE 0)
    /\ \A r \in 1..Len(readers') : readers'[r].scan = "rejected" => ~readers'[r].handlers
    /\ \A r \in 1..Len(readers) : readers[r].scan = "rejected" => readers'[r] = readers[r]
    /\ (\E i \in 1..Len(NewLines) : NewLines[i].msg = "Scan failed") => op' \in ScanFailureOps
C3_ScanFailureSoft == [][C3_ScanFailureStep]_vars
C3_Witness ==
    /\ op = "scanRejected"
    /\ ~scanning
    /\ logs # <<>> /\ logs[1].msg = "Scan failed"
    /\ \E r \in 1..Len(readers) : readers[r].scan = "rejected" /\ ~readers[r].handlers

\* C4: monitor on the selected device sets health.signal to signal + 4, or to
\* 100 when that exceeds 100, and lastSyncMinsAgo to 0; every device's
\* health.signal stays within 0..100 in every reachable state.
SignalsInRange == \A i \in 1..Len(cards) : cards[i].health.signal \in 0..100
C4_MonitorStep ==
    op' = "monitor" =>
        \E i \in 1..Len(cards) :
            /\ cards[i].id = selected(cards, selectedId).id
            /\ cards'[i].health.signal =
                  (IF cards[i].health.signal + 4 > 100 THEN 100
                   ELSE cards[i].health.signal + 4)
            /\ cards'[i].health.lastSyncMinsAgo = 0
C4_MonitorClamps == []SignalsInRange /\ [][C4_MonitorStep]_vars
\* Card 1 after four monitors: 88 -> 92 -> 96 -> 100 -> 100.
C4_Witness ==
    /\ op = "monitor"
    /\ cards[1].health.signal = 100
    /\ cards[1].health.tempC = initialCards[1].health.tempC + 4
    /\ cards[1].health.lastSyncMinsAgo = 0

\* C5: toggleConnection flips connected of the selected device and changes
\* nothing else: not another field of that device, not another device, not
\* selectedId, not the order of the list; applied twice it gives the list back.
C5_ToggleStep ==
    mutation' = "toggleConnection" =>
        /\ selectedId' = selectedId
        /\ Len(cards') = Len(cards)
        /\ \A i \in 1..Len(cards) :
              IF cards[i].id = selected(cards, selectedId).id
              THEN /\ cards'[i].connected = ~cards[i].connected
                   /\ cards'[i].id = cards[i].id
                   /\ cards'[i].name = cards[i].name
                   /\ cards'[i].batteryPct = cards[i].batteryPct
                   /\ cards'[i].health = cards[i].health
                   /\ cards'[i].inventory = cards[i].inventory
              ELSE cards'[i] = cards[i]
ToggleTwiceIsIdentity ==
    LET sel == selected(cards, selectedId)
        once == toggleConnection(cards, sel)
    IN  toggleConnection(once, selected(once, selectedId)) = cards
C5_ToggleFrame == []ToggleTwiceIsIdentity /\ [][C5_ToggleStep]_vars
C5_Witness ==
    /\ mutation = "toggleConnection"
    /\ op = "disconnect"
    /\ selectedId = "card-1"
    /\ ~cards[1].connected

C7_LogStep ==
    /\ Len(logs') >= Len(logs)
    /\ SubSeq(logs', Len(logs') - Len(logs) + 1, Len(logs')) = logs
C7_LogAppendOnly == [][C7_LogStep]_vars
\* A handler's lines on top of a stop's line on top of a start's line.
C7_Witness ==
    /\ Len(logs) >= 3
    /\ logs[1].msg \in {"Tag read", "Text record"}
    /\ \E i \in 2..Len(logs) : \E j \in (i + 1)..Len(logs) :
          logs[i].msg = "Stopped (UI-only)" /\ logs[j].msg = "Starting scan"

\* Well-formed UTF-8 over the bytes in use (one- and two-byte sequences).
RECURSIVE WellFormedUtf8(_)
WellFormedUtf8(bytes) ==
    IF bytes = <<>> THEN TRUE
    ELSE IF bytes[1] < 128 THEN WellFormedUtf8(Tail(bytes))
    ELSE /\ bytes[1] >= 194 /\ bytes[1] <= 223
         /\ Len(bytes) >= 2
         /\ bytes[2] >= 128 /\ bytes[2] <= 191
         /\ WellFormedUtf8(Tail(Tail(bytes)))
\* The event's first record is a text record that cannot be decoded: its
\* encoding is unknown, its data is no buffer, or its bytes are malformed.
Undecodable(event) ==
    /\ Len(event.records) > 0
    /\ event.records[1].recordType = "text"
    /\ LET rec == event.records[1] IN
         \/ (IF rec.encoding = "" THEN "utf-8" ELSE rec.encoding) \notin KnownLabels
         \/ ~rec.data.buffer
         \/ ~WellFormedUtf8(rec.data.bytes)

\* C8: a read event whose text record cannot be decoded adds a decode-failure
\* line to the log, raises no exception and leaves scanning and the attached
\* handlers as they were.
C8_UndecodableStep ==
    (op' = "onreading" /\ Undecodable(lastEvent')) =>
        /\ Len(logs') = Len(logs) + 2
        /\ logs'[1].msg = "Text record found, but could not decode"
        /\ scanning' = scanning
        /\ readers' = readers
        /\ uncaught' = uncaught
C8_UndecodableLogged == [][C8_UndecodableStep]_vars

\* C9: with supported true, no step of writeText (the call, the resolution or
\* the rejection of its write) changes scanning or lets an exception out; the
\* call adds "Writing" or, when the constructor throws, "Write failed"; the
\* resolution adds exactly "Write success" and the rejection exactly "Write
\* failed"; a write that has ended never ends again, and an outcome line
\* appears only where a write ends.
WriteEndOps == {"writeTextThrew", "writeResolved", "writeRejected"}
OutcomeMsgs == {"Write success", "Write failed"}
C9_WriteStep ==
    /\ (supported /\ op' \in WriteCallOps \cup WriteEndOps) =>
          /\ scanning' = scanning
          /\ uncaught' = uncaught
          /\ op' = "writeText" => Pushed("Writing")
          /\ op' = "writeResolved" => Pushed("Write success")
          /\ op' \in {"writeTextThrew", "writeRejected"} => Pushed("Write failed")
    /\ \A w \in 1..Len(writers) : writers[w].write # "pending" => writers'[w] = writers[w]
    /\ (\E i \in 1..Len(NewLines) : NewLines[i].msg \in OutcomeMsgs) => op' \in WriteEndOps
C9_WriteTextFrame == [][C9_WriteStep]_vars
\* A write resolves while the session is scanning and a second scan is pending.
C9_Witness ==
    /\ op = "writeResolved"
    /\ scanning
    /\ logs # <<>> /\ logs[1].msg = "Write success"
    /\ \E r \in 1..Len(readers) : readers[r].scan = "pending"

\* C10: clamp(n, 0, 100) is within 0..100: n itself when 0 <= n <= 100, 0 when
\* n < 0 and 100 when n > 100.
C10_ClampRange ==
    clampOut # <<>> =>
        /\ clampOut[1] \in 0..100
        /\ (clampIn >= 0 /\ clampIn <= 100) => clampOut[1] = clampIn
        /\ clampIn < 0 => clampOut[1] = 0
        /\ clampIn > 100 => clampOut[1] = 100
C10_Witness ==
    /\ clampIn > 100
    /\ clampOut = <<100>>

\* C11: the modal's Connect leaves the selected device connected and its
\* Disconnect leaves it disconnected, each a no-op when the device is already
\* so; neither changes selectedId, another device, or another field of the
\* selected device; and every modal action (Connect, Disconnect, Monitor
\* Health, close) closes the modal.
ModalOps == {"connect", "disconnect", "monitor", "close"}
C11_OnlyConnectedOfSelected(want) ==
    /\ selectedId' = selectedId
    /\ Len(cards') = Len(cards)
    /\ selected(cards', selectedId').connected = want
    /\ selected(cards, selectedId).connected = want => cards' = cards
    /\ \A i \in 1..Len(cards) :
          IF cards[i].id = selected(cards, selectedId).id
          THEN cards'[i] = [cards[i] EXCEPT !.connected = want]
          ELSE cards'[i] = cards[i]
C11_ModalStep ==
    /\ op' = "connect" => C11_OnlyConnectedOfSelected(TRUE)
    /\ op' = "disconnect" => C11_OnlyConnectedOfSelected(FALSE)
    /\ op' \in ModalOps => modalOpen /\ ~modalOpen'
C11_ModalDirectional == [][C11_ModalStep]_vars
\* Connect pressed on card-1 while it is connected: the card stays connected,
\* the registry is as it was and the modal is closed.
C11_Witness ==
    /\ op = "connect"
    /\ mutation = "none"
    /\ selectedId = "card-1"
    /\ cards[1].connected
    /\ cards = initialCards
    /\ ~modalOpen

====
